---- MODULE Spec2Model ----
(***************************************************************************)
(* Model of the markdown lexer (src/src/lexer.rs), of the syntax tree      *)
(* (src/src/ast.rs) and of the parser (src/src/parser.rs).                 *)
(*                                                                         *)
(* A source is a sequence of characters; every character has a UTF-8 byte  *)
(* width, and all offsets (token ranges, the scan position) are byte       *)
(* offsets, as in the code.  The scanner state is the byte offset of the   *)
(* _iter cursor and the _lookahead buffer.  A Rust panic (a failed         *)
(* assert!, a slice at a non char boundary) is the absorbing state         *)
(* failed = TRUE.                                                          *)
(***************************************************************************)
EXTENDS Naturals, Sequences, FiniteSets

VARIABLES
    source,   \* Lexer::_source, a sequence of characters
    pos,      \* Lexer::offset(): byte offset of the _iter cursor
    la,       \* Lexer::_lookahead (NoToken models None)
    failed,   \* TRUE once a call has panicked
    op,       \* the last call made on the lexer
    ret,      \* what the last call returned (NoToken: nothing / None)
    pop,      \* the call made before the last one
    pret,     \* what the call before the last one returned
    out,      \* tokens produced by next_token since construction / last rollback
    seen,     \* every token next_token or lookahead has returned so far
    rb,       \* argument of the last rollback_to while only next_token calls
              \* have followed it (NoToken otherwise)
    node,     \* the syntax tree node under construction (NoNode: none yet)
    arg,      \* argument of the last call made on the tree
    res,      \* what the last call on the tree or parse() returned
    calls,    \* the calls the last call on the tree or parse() made, in order
    visitor   \* the state of the visitor handed to accept()

lexvars == <<source, pos, la, failed, op, ret, pop, pret, out, seen, rb>>

astvars == <<node, arg, res, calls, visitor>>

vars == <<source, pos, la, failed, op, ret, pop, pret, out, seen, rb,
          node, arg, res, calls, visitor>>

-----------------------------------------------------------------------------
(* Bounds *)

MaxLen == 4       \* longest source of SpecLex, in characters
MaxApiLen == 3    \* longest source of Spec, in characters
MaxCalls == 6     \* longest run of next_token calls that is recorded in out

-----------------------------------------------------------------------------
(* Characters *)

\* The character U+0060 (grave accent), which a TLA+ string cannot hold.
Backtick == "backtick"

KEYCHARS ==
    {"\\", Backtick, "*", "_", "{", "}", "[", "]", "(", ")", "#", "+", "-", ".", "!", "|", ">", "<"}

WHITESPACECHARS == {" ", "\t"}

LINEBREAKCHARS == {"\r", "\n"}

\* UTF-8 encoded length of a character (char::len_utf8); "é" is U+00E9.
Width(c) == IF c = "é" THEN 2 ELSE 1

RECURSIVE ByteOffset(_, _)
\* Byte offset at which the i-th character (1-based) of src starts;
\* ByteOffset(src, Len(src) + 1) is the byte length of src.
ByteOffset(src, i) == IF i <= 1 THEN 0 ELSE ByteOffset(src, i - 1) + Width(src[i - 1])

\* str::len
SourceLen(src) == ByteOffset(src, Len(src) + 1)

\* str::is_char_boundary
is_char_boundary(src, b) == \E i \in 1..(Len(src) + 1) : ByteOffset(src, i) = b

\* The character that starts at byte offset b (b a char boundary below the length).
CharAt(src, b) == src[CHOOSE i \in 1..Len(src) : ByteOffset(src, i) = b]

-----------------------------------------------------------------------------
(* Tokens *)

Token(kind, start, end, align) ==
    [kind |-> kind, start |-> start, end |-> end, align |-> align]

NoToken == Token("None", 0, 0, "None")

\* Result of a scanning step: the token, the new cursor and lookahead buffer.
Ret(tok, p, l) == [tok |-> tok, pos |-> p, la |-> l, panic |-> FALSE]

Panic == [tok |-> NoToken, pos |-> 0, la |-> NoToken, panic |-> TRUE]

-----------------------------------------------------------------------------
(* read_until and the closures handed to it *)

\* Each closure maps (character, captured flag) to (accepted, new flag).
Acc(ok, st) == [ok |-> ok, st |-> st]

read_pounds_f(c, st) == Acc(c = "#", st)

read_asterisks_f(c, st) == Acc(c = "*", st)

read_underscores_f(c, st) == Acc(c = "_", st)

read_pluses_f(c, st) == Acc(c = "+", st)

read_backticks_f(c, st) == Acc(c = Backtick, st)

\* read_whitespaces with a closure that forgets the tab
read_whitespaces_space_only(c, st) == Acc(c = " ", st)

read_whitespaces_f(c, st) == Acc(c \in WHITESPACECHARS, st)

read_linebreaks_f(c, st) == Acc(c \in LINEBREAKCHARS, st)

\* st is the captured variable suffix
read_align_f(c, st) ==
    IF c = "-" THEN Acc(TRUE, st)
    ELSE IF ~st /\ c = ":" THEN Acc(TRUE, TRUE)
    ELSE Acc(FALSE, st)

\* st is the captured variable escaping
read_plaintext_f(c, st) ==
    IF c \in KEYCHARS
    THEN IF c = "\\" /\ ~st THEN Acc(TRUE, TRUE) ELSE Acc(st, st)
    ELSE IF c \in WHITESPACECHARS THEN Acc(FALSE, st)
    ELSE IF c \in LINEBREAKCHARS THEN Acc(FALSE, st)
    ELSE Acc(TRUE, st)

F(f, c, st) ==
    CASE f = "read_pounds" -> read_pounds_f(c, st)
      [] f = "read_asterisks" -> read_asterisks_f(c, st)
      [] f = "read_underscores" -> read_underscores_f(c, st)
      [] f = "read_pluses" -> read_pluses_f(c, st)
      [] f = "read_backticks" -> read_backticks_f(c, st)
      [] f = "read_whitespaces" -> read_whitespaces_f(c, st)
      [] f = "read_linebreaks" -> read_linebreaks_f(c, st)
      [] f = "read_align_type_or_plaintext" -> read_align_f(c, st)
      [] f = "read_plaintext" -> read_plaintext_f(c, st)

\* Where the cursor is put back when the closure rejects the character that
\* ends at byte offset q: one BYTE before q.
Rewind(q) == q - 1

\* Below, CHOOSE r \in {e(x) : x \in {v}} : TRUE stands for "let x be the
\* value of v in e(x)": x is bound to the value, which is computed once.

RECURSIVE read_until_loop(_, _, _, _, _)
\* The while loop of read_until: begin is the offset at entry, p the cursor,
\* a the closure's answer on the character at p and q the cursor after it.
read_until_loop(src, begin, p, f, st) ==
    IF p = SourceLen(src)
    THEN [begin |-> begin, end |-> p, pos |-> p, st |-> st, panic |-> FALSE]
    ELSE CHOOSE range \in
           { IF ~a.ok
             THEN IF is_char_boundary(src, Rewind(q))
                  THEN [begin |-> begin, end |-> Rewind(q), pos |-> Rewind(q),
                        st |-> a.st, panic |-> FALSE]
                  ELSE [begin |-> begin, end |-> 0, pos |-> 0, st |-> a.st, panic |-> TRUE]
             ELSE read_until_loop(src, begin, q, f, a.st)
             : a \in {F(f, CharAt(src, p), st)}, q \in {p + Width(CharAt(src, p))} } : TRUE

read_until(src, p, f) == read_until_loop(src, p, p, f, FALSE)

\* Range::len of the range read_until returns
RangeLen(r) == IF r.end >= r.begin THEN r.end - r.begin ELSE 0

-----------------------------------------------------------------------------
(* The read_* methods; p is the cursor after the first character *)

ReadRun(src, start, p, f, kind) ==
    CHOOSE r \in
      { IF range.panic THEN Panic
        ELSE Ret(Token(kind, start, range.end, "None"), range.pos, NoToken)
        : range \in {read_until(src, p, f)} } : TRUE

read_pounds(src, start, p) == ReadRun(src, start, p, "read_pounds", "Pounds")

read_asterisks(src, start, p) == ReadRun(src, start, p, "read_asterisks", "Asterisks")

read_underscores(src, start, p) == ReadRun(src, start, p, "read_underscores", "Underscores")

read_pluses(src, start, p) == ReadRun(src, start, p, "read_pluses", "Pluses")

read_backticks(src, start, p) == ReadRun(src, start, p, "read_backticks", "Backticks")

read_whitespaces(src, start, p) == ReadRun(src, start, p, "read_whitespaces", "WhiteSpaces")

read_linebreaks(src, start, p) == ReadRun(src, start, p, "read_linebreaks", "LineBreaks")

read_plaintext(src, start, p) == ReadRun(src, start, p, "read_plaintext", "PlainText")

\* range.st is the captured variable suffix after read_until
read_align_type_or_plaintext(src, start, p, has_prefix) ==
    CHOOSE r \in
      { IF range.panic THEN Panic
        ELSE IF has_prefix /\ RangeLen(range) > 1
        THEN IF range.st
             THEN Ret(Token("Align", start, range.end, "Center"), range.pos, NoToken)
             ELSE Ret(Token("Align", start, range.end, "Left"), range.pos, NoToken)
        ELSE IF ~has_prefix /\ RangeLen(range) > 1
        THEN IF range.st
             THEN Ret(Token("Align", start, range.end, "Right"), range.pos, NoToken)
             ELSE Ret(Token("Dashes", start, range.end, "None"), range.pos, NoToken)
        ELSE Ret(Token("PlainText", start, range.end, "None"), range.pos, NoToken)
        : range \in {read_until(src, p, "read_align_type_or_plaintext")} } : TRUE

\* Eof placed at the number of characters instead of the number of bytes
EofTokenCharCount(src) == Token("Eof", Len(src), Len(src), "None")

\* Token::Eof(offset..offset) with offset = _source.len()
EofToken(src) == Token("Eof", SourceLen(src), SourceLen(src), "None")

\* What lookahead() stores in _lookahead after next_token returned r.
Stored(r) == r.tok

-----------------------------------------------------------------------------
(* next_token and lookahead *)

RECURSIVE next_token(_, _, _)
RECURSIVE lookahead(_, _, _)

\* Lexer::next_token on a lexer with cursor p and lookahead buffer l.
next_token(src, p, l) ==
    IF l # NoToken THEN Ret(l, p, NoToken)
    ELSE IF p = SourceLen(src) THEN Ret(EofToken(src), p, NoToken)
    ELSE
      LET start == p
          c == CharAt(src, p)
          p1 == p + Width(c)
      IN  CASE c = "#" -> read_pounds(src, start, p1)
            [] c = "*" -> read_asterisks(src, start, p1)
            [] c = "+" -> read_pluses(src, start, p1)
            [] c = "-" -> read_align_type_or_plaintext(src, start, p1, FALSE)
            [] c = ":" ->
                 CHOOSE r \in
                   { IF token.panic \/ token.tok.kind # "PlainText" THEN token
                     ELSE CHOOSE r2 \in
                       { IF nx.panic THEN Panic
                         ELSE IF nx.tok.kind = "PlainText"
                         THEN LET taken == next_token(src, nx.pos, nx.la)
                              IN  Ret(Token("PlainText", token.tok.start,
                                            nx.tok.end, "None"),
                                      taken.pos, taken.la)
                         ELSE Ret(token.tok, nx.pos, nx.la)
                         : nx \in {lookahead(src, token.pos, token.la)} } : TRUE
                     : token \in {read_align_type_or_plaintext(src, start, p1, TRUE)} } : TRUE
            [] c = "_" -> read_underscores(src, start, p1)
            [] c = Backtick -> read_backticks(src, start, p1)
            [] c \in {" ", "\t"} -> read_whitespaces(src, start, p1)
            [] c \in {"\r", "\n"} -> read_linebreaks(src, start, p1)
            [] OTHER ->
                 IF c \in KEYCHARS
                 THEN Ret(Token("KeyChar", start, start + 1, "None"), p1, NoToken)
                 ELSE read_plaintext(src, start, p1)

\* Lexer::lookahead
lookahead(src, p, l) ==
    CHOOSE r \in
      { IF token.panic THEN Panic ELSE Ret(token.tok, token.pos, Stored(token))
        : token \in {next_token(src, p, l)} } : TRUE

\* Lexer::rollback_to
rollback_to(src, token) ==
    IF ~(token.start < SourceLen(src)) THEN Panic
    ELSE IF ~(token.end < SourceLen(src)) THEN Panic
    ELSE Ret(NoToken, token.start, token)

\* Iterator::next: None (NoToken) for Eof, Some(token) otherwise
next(src, p, l) ==
    CHOOSE r \in
      { IF token.panic THEN Panic
        ELSE IF token.tok.kind = "Eof" THEN Ret(NoToken, token.pos, token.la)
        ELSE token
        : token \in {next_token(src, p, l)} } : TRUE

-----------------------------------------------------------------------------
(* Syntax tree values (src/src/ast.rs) *)

\* A value of one of the node structs (rust = "struct") or of the enum Node
\* (rust = "Node", ty names the variant).  depth is Heading::depth, value
\* the text of a literal node, children the children vector.
Value(rust, ty, children, depth, value) ==
    [rust |-> rust, ty |-> ty, children |-> children, depth |-> depth, value |-> value]

NoNode == Value("None", "None", <<>>, 0, <<>>)

\* A struct literal with no children, e.g. Text { value }
Struct(ty, value) == Value("struct", ty, <<>>, 0, value)

\* The variants of enum Node
NodeVariants ==
    {"Document", "Heading", "ThematicBreak", "Blockquote", "List", "ListItem",
     "Code", "Definition", "Text", "Emphasis", "Strong", "InlineCode", "Break",
     "Link", "LinkReference", "Image", "ImageReference"}

\* The structs the parent! macro is invoked for
ParentTypes ==
    {"Document", "Paragraph", "Heading", "Blockquote", "List", "ListItem",
     "Emphasis", "Strong", "Link", "LinkReference", "Delete",
     "FootnoteDefinition", "Table", "TableCell", "TableRow"}

\* The marker traits implemented for each struct (impl X for Y {})
Capabilities(ty) ==
    CASE ty \in {"Paragraph", "Heading", "ThematicBreak", "Blockquote", "List",
                 "Code", "Definition", "FootnoteDefinition", "Table"} -> {"FlowContent"}
      [] ty = "ListItem" -> {"ListContent"}
      [] ty \in {"Text", "Emphasis", "Strong", "InlineCode", "Break", "Link",
                 "LinkReference", "Image", "ImageReference", "Delete",
                 "FootnoteReference"} -> {"PhrasingContent"}
      [] ty = "TableCell" -> {"RowContent"}
      [] ty = "TableRow" -> {"TableContent"}
      [] OTHER -> {}

\* The marker traits a value's Rust type implements: none is implemented
\* for the enum Node.
Traits(x) == IF x.rust = "struct" THEN Capabilities(x.ty) ELSE {}

\* The content type each parent! invocation names; "Any" is the
\* one-argument form, which names none.
Required(ty) ==
    CASE ty = "Document" -> "Any"
      [] ty \in {"Paragraph", "Heading", "Blockquote", "Emphasis", "Strong",
                 "Link", "LinkReference", "Delete", "TableCell"} -> "PhrasingContent"
      [] ty = "List" -> "ListContent"
      [] ty \in {"ListItem", "FootnoteDefinition"} -> "FlowContent"
      [] ty = "Table" -> "TableContent"
      [] ty = "TableRow" -> "RowContent"

\* Child: Into<Node>.  ast.rs has no From impl for Node, so the only type
\* with this conversion is Node itself.
IntoNode(x) == x.rust = "Node"

\* node.into(): the value as a Node
into(x) == [x EXCEPT !.rust = "Node"]

\* The where clause of the Parent impl of struct ty, for a child x
Accepts(ty, x) ==
    /\ IntoNode(x)
    /\ (Required(ty) = "Any" \/ Required(ty) \in Traits(x))

\* Vec::push
push(children, x) == Append(children, x)

\* Vec::swap_remove: the last element takes the place of the removed one
swap_remove(children, index) ==
    IF index + 1 = Len(children) THEN SubSeq(children, 1, index)
    ELSE [i \in 1..(Len(children) - 1) |->
             IF i = index + 1 THEN children[Len(children)] ELSE children[i]]

\* Vec::remove (index below the length): the later elements shift left
remove(children, index) ==
    [i \in 1..(Len(children) - 1) |->
        IF i <= index THEN children[i] ELSE children[i + 1]]

\* Parent::add_child
add_child(n, x) == [n EXCEPT !.children = push(n.children, into(x))]

\* Parent::remove_at; Vec::remove panics when index is not below the length
remove_at(n, index) ==
    IF index >= Len(n.children)
    THEN [panic |-> TRUE, node |-> n, removed |-> NoNode]
    ELSE [panic |-> FALSE,
          node |-> [n EXCEPT !.children = remove(n.children, index)],
          removed |-> n.children[index + 1]]

\* Parent::iter, as the sequence of items the iterator yields
iter(n) == n.children

\* a depth check that lets 7 through
HeadingDepthUpTo7(depth) == depth > 0 /\ depth <= 7

\* The condition asserted by Heading::new
HeadingDepthOk(depth) == depth > 0 /\ depth < 7

\* Heading::new
Heading_new(depth) ==
    IF ~HeadingDepthOk(depth)
    THEN [panic |-> TRUE, node |-> NoNode]
    ELSE [panic |-> FALSE, node |-> Value("struct", "Heading", <<>>, depth, <<>>)]

\* a dispatch that sends every variant to visit_document
CallbackDocumentOnly(variant) == "visit_document"

\* The Visitor method the match arm of Node::accept calls for each variant
Callback(variant) ==
    CASE variant = "Document" -> "visit_document"
      [] variant = "Heading" -> "visit_heading"
      [] variant = "ThematicBreak" -> "visit_thematic_break"
      [] variant = "Blockquote" -> "visit_blockquote"
      [] variant = "List" -> "visit_list"
      [] variant = "ListItem" -> "visit_list_item"
      [] variant = "Code" -> "visit_code"
      [] variant = "Definition" -> "visit_definition"
      [] variant = "Text" -> "visit_text"
      [] variant = "Emphasis" -> "visit_emphasis"
      [] variant = "Strong" -> "visit_strong"
      [] variant = "InlineCode" -> "visit_inline_code"
      [] variant = "Break" -> "visit_break"
      [] variant = "Link" -> "visit_link"
      [] variant = "LinkReference" -> "visit_link_reference"
      [] variant = "Image" -> "visit_image"
      [] variant = "ImageReference" -> "visit_image_reference"

\* A visitor that overrides no method
DefaultVisitor == [overrides |-> {}, state |-> 0]

\* A Visitor method called on visitor v with the struct x: the default body
\* is empty.
visit(method, v, x) == v

\* One recorded call: the function and its argument
Call(fn, a) == [fn |-> fn, arg |-> a]

\* Node::accept on the Node n with the visitor v: the visitor afterwards and
\* the Visitor methods called, each with the struct it was handed.
accept(n, v) ==
    [visitor |-> visit(Callback(n.ty), v, [n EXCEPT !.rust = "struct"]),
     calls |-> <<Call(Callback(n.ty), [n EXCEPT !.rust = "struct"])>>]

\* What a call on the tree returned: kind is "Ok", "Node", "Iter",
\* "Unit", "Rejected" or "None"
Res(kind, n, items) == [kind |-> kind, node |-> n, items |-> items]

NoRes == Res("None", NoNode, <<>>)

-----------------------------------------------------------------------------
(* Sources *)

\* The model reads sources over each of these alphabets.
Alphabets ==
    { {"#", "*", "_", Backtick, "+", "a"},
      {" ", "\t", "\r", "\n", "a", "#"},
      {"\\", "{", "}", "[", "]", "a"},
      {"(", ")", ".", "!", "a", " "},
      {"|", ">", "<", "\\", "a", "#"},
      {":", "-", " ", "a", "#", "é"},
      {"a", "\\", "#", " ", ":", "-"} }

SeqsUpTo(A, n) == UNION {[1..k -> A] : k \in 0..n}

Sources == UNION {SeqsUpTo(A, MaxLen) : A \in Alphabets}

\* The sources on which every interleaving of the four calls is explored.
ApiAlphabets ==
    { {"a", " ", ":", "-"},
      {"#", "é", "a", " "} }

ApiSources == UNION {SeqsUpTo(A, MaxApiLen) : A \in ApiAlphabets}

-----------------------------------------------------------------------------
(* State machine *)

\* Lexer::new(src)
New(src) ==
    /\ source = src
    /\ pos = 0
    /\ la = NoToken
    /\ failed = FALSE
    /\ op = "new"
    /\ ret = NoToken
    /\ pop = "new"
    /\ pret = NoToken
    /\ out = <<>>
    /\ seen = {}
    /\ rb = NoToken
    /\ node = NoNode
    /\ arg = NoNode
    /\ res = NoRes
    /\ calls = <<>>
    /\ visitor = DefaultVisitor

Init == \E src \in ApiSources : New(src)

InitLex == \E src \in Sources : New(src)

Fail(name) ==
    /\ failed' = TRUE
    /\ op' = name
    /\ ret' = NoToken
    /\ pop' = op
    /\ pret' = ret
    /\ UNCHANGED <<source, pos, la, out, seen, rb>>
    /\ UNCHANGED astvars

Done(name, r) ==
    /\ pos' = r.pos
    /\ la' = r.la
    /\ op' = name
    /\ ret' = r.tok
    /\ pop' = op
    /\ pret' = ret
    /\ UNCHANGED <<source, failed>>
    /\ UNCHANGED astvars

\* a call of lexer.next_token()
NextToken ==
    /\ ~failed
    /\ Len(out) < MaxCalls
    /\ \E r \in {next_token(source, pos, la)} :
           IF r.panic THEN Fail("next_token")
           ELSE /\ Done("next_token", r)
                /\ out' = Append(out, r.tok)
                /\ seen' = seen \cup {r.tok}
                /\ UNCHANGED rb

\* a call of lexer.lookahead()
Lookahead ==
    /\ ~failed
    /\ \E r \in {lookahead(source, pos, la)} :
           IF r.panic THEN Fail("lookahead")
           ELSE /\ Done("lookahead", r)
                /\ seen' = seen \cup {r.tok}
                /\ rb' = NoToken
                /\ UNCHANGED out

\* a call of lexer.rollback_to(t) with a token the lexer returned before
RollbackTo ==
    /\ ~failed
    /\ \E t \in seen :
         \E r \in {rollback_to(source, t)} :
             IF r.panic
             THEN /\ Fail("rollback_to")
             ELSE /\ Done("rollback_to", r)
                  /\ out' = <<>>
                  /\ rb' = t
                  /\ UNCHANGED seen

\* a call of Iterator::next on the lexer
IterNext ==
    /\ ~failed
    /\ Len(out) < MaxCalls
    /\ \E r \in {next(source, pos, la)}, t \in {next_token(source, pos, la)} :
           IF r.panic THEN Fail("next")
           ELSE /\ Done("next", r)
                /\ out' = Append(out, t.tok)
                /\ seen' = seen \cup {t.tok}
                /\ UNCHANGED rb

Next == NextToken \/ Lookahead \/ RollbackTo \/ IterNext

Spec == Init /\ [][Next]_vars

\* A fresh lexer drained by next_token calls alone.
NextLex == NextToken

SpecLex == InitLex /\ [][NextLex]_vars

-----------------------------------------------------------------------------
(* Helpers for the properties *)

\* The characters of src that start at a byte offset in a..b-1.
CharsIn(src, a, b) ==
    {src[i] : i \in {j \in 1..Len(src) : a <= ByteOffset(src, j) /\ ByteOffset(src, j) < b}}

\* The character that ends at byte offset b (b > 0 a char boundary).
CharBefore(src, b) == src[CHOOSE i \in 1..Len(src) : ByteOffset(src, i + 1) = b]

\* t spans a run of characters of S that cannot be extended on either side.
MaximalRun(src, t, S) ==
    /\ t.start < t.end
    /\ CharsIn(src, t.start, t.end) \subseteq S
    /\ (t.end < SourceLen(src) => CharAt(src, t.end) \notin S)
    /\ (t.start > 0 => CharBefore(src, t.start) \notin S)

\* The last call was next_token and it returned a token of the source.
Returned == ~failed /\ op = "next_token" /\ ret.kind \notin {"None", "Eof"}

RECURSIVE Stream(_, _, _, _)
\* The first n tokens a lexer with cursor p and buffer l yields to next_token.
Stream(src, p, l, n) ==
    IF n = 0 THEN <<>>
    ELSE LET r == next_token(src, p, l)
         IN  IF r.panic THEN <<>> ELSE <<r.tok>> \o Stream(src, r.pos, r.la, n - 1)

IsPrefix(s, t) == Len(s) <= Len(t) /\ \A i \in 1..Len(s) : s[i] = t[i]

-----------------------------------------------------------------------------
(* C1 *)

\* C1: on every source, repeated next_token calls never abort, every call
\* that returns a token other than Eof consumes at least one character, and
\* Eof is returned after at most (source length + 1) calls.
C1_NextTokenNeverAborts ==
    /\ ~failed
    /\ \A i \in 1..Len(out) : out[i].kind # "Eof" => out[i].start < out[i].end
    /\ Len(out) > SourceLen(source) => \E i \in 1..Len(out) : out[i].kind = "Eof"

-----------------------------------------------------------------------------
(* C2 *)

\* C2: the tokens returned by successive next_token calls up to Eof have
\* non-empty ranges that partition the source: the first starts at 0, each
\* token starts where the previous one ended, and Eof is returned exactly
\* when the previous token ended at the source length.
C2_TokensPartitionSource ==
    \A i \in 1..Len(out) :
        /\ out[i].kind # "Eof" => out[i].start < out[i].end
        /\ out[i].start = (IF i = 1 THEN 0 ELSE out[i - 1].end)
        /\ out[i].kind = "Eof" => out[i].start = SourceLen(source)

-----------------------------------------------------------------------------
(* C3 *)

\* C3: after rollback_to(t) the scan position is t's start offset, and the
\* next_token calls that follow return t exactly once and then the tokens a
\* scan resumed at t's end yields.
C3_RollbackReplaysStream ==
    (rb # NoToken /\ ~failed) =>
        /\ op = "rollback_to" => pos = rb.start
        /\ \A i \in 1..Len(out) : (out[i] = rb) <=> (i = 1)
        /\ IsPrefix(out, <<rb>> \o Stream(source, rb.end, NoToken, MaxCalls))

-----------------------------------------------------------------------------
(* C4 *)

\* C4: rollback_to(t) completes without failure for every token t that
\* next_token or lookahead returned before, the last token of the source and
\* Eof included.
C4_RollbackNeverFails == ~(failed /\ op = "rollback_to")

-----------------------------------------------------------------------------
(* C5 *)

\* C5: lookahead() leaves the token t it returns in the buffer; a further
\* lookahead() returns the same t, the next next_token() (or Iterator next)
\* hands out that t and empties the buffer, and the next_token() call after
\* that one does not return t again (t other than Eof, which repeats): t is
\* delivered exactly once.
C5_LookaheadDoesNotConsume ==
    /\ (op = "lookahead" /\ ~failed) => (ret # NoToken /\ la = ret)
    /\ (pop = "lookahead" /\ op = "lookahead" /\ ~failed) => ret = pret
    /\ (pop = "lookahead" /\ op = "next_token" /\ ~failed) =>
           /\ ret = pret
           /\ la = NoToken
           /\ ret.kind # "Eof" =>
                  \A following \in {next_token(source, pos, la)} :
                      following.panic \/ following.tok # ret
    /\ (pop = "lookahead" /\ op = "next" /\ ~failed) =>
           /\ la = NoToken
           /\ ret = (IF pret.kind = "Eof" THEN NoToken ELSE pret)

-----------------------------------------------------------------------------
(* C6 *)

\* The longest run at byte offset s of the shape [:] - ... - [:], as the
\* numbers of leading colons (0 or 1), dashes and trailing colons (0 or 1).
RECURSIVE DashesFrom(_, _)
DashesFrom(src, s) ==
    IF s < SourceLen(src) /\ CharAt(src, s) = "-" THEN 1 + DashesFrom(src, s + 1) ELSE 0

ColonAt(src, s) == IF s < SourceLen(src) /\ CharAt(src, s) = ":" THEN 1 ELSE 0

AlignRun(src, s) ==
    LET lead == ColonAt(src, s)
        dashes == DashesFrom(src, s + lead)
        trail == IF dashes > 0 THEN ColonAt(src, s + lead + dashes) ELSE 0
    IN  [lead |-> lead, dashes |-> dashes, trail |-> trail,
         len |-> IF dashes > 0 THEN lead + dashes + trail ELSE 0]

\* C6: where a token starts with a run of dashes with an optional leading
\* and an optional trailing colon, of total length 2 or more, the token
\* spans exactly that run and is Align(Center), Align(Left), Align(Right) or
\* Dashes according to the colons.
C6_AlignRunsClassified ==
    Returned =>
        LET run == AlignRun(source, ret.start)
        IN  run.len > 1 =>
              /\ ret.end = ret.start + run.len
              /\ ret.kind = (IF run.lead = 0 /\ run.trail = 0 THEN "Dashes" ELSE "Align")
              /\ ret.align = (CASE run.lead = 1 /\ run.trail = 1 -> "Center"
                                [] run.lead = 1 /\ run.trail = 0 -> "Left"
                                [] run.lead = 0 /\ run.trail = 1 -> "Right"
                                [] OTHER -> "None")

-----------------------------------------------------------------------------
(* C7 *)

SingleKeyChars == {"\\", "{", "}", "[", "]", "(", ")", ".", "!", "|", ">", "<"}

\* C7: the first character of a returned token fixes its kind and its span:
\* a maximal run of that character for # * _ (backtick) +, a maximal run of
\* spaces and tabs, a maximal run of CR and LF, and one character for each
\* of \ { } [ ] ( ) . ! | > <.
C7_KindByFirstChar ==
    Returned =>
        LET c == CharAt(source, ret.start)
        IN  /\ c = "#" => (ret.kind = "Pounds" /\ MaximalRun(source, ret, {"#"}))
            /\ c = "*" => (ret.kind = "Asterisks" /\ MaximalRun(source, ret, {"*"}))
            /\ c = "_" => (ret.kind = "Underscores" /\ MaximalRun(source, ret, {"_"}))
            /\ c = Backtick => (ret.kind = "Backticks" /\ MaximalRun(source, ret, {Backtick}))
            /\ c = "+" => (ret.kind = "Pluses" /\ MaximalRun(source, ret, {"+"}))
            /\ c \in {" ", "\t"} =>
                   (ret.kind = "WhiteSpaces" /\ MaximalRun(source, ret, {" ", "\t"}))
            /\ c \in {"\r", "\n"} =>
                   (ret.kind = "LineBreaks" /\ MaximalRun(source, ret, {"\r", "\n"}))
            /\ c \in SingleKeyChars => (ret.kind = "KeyChar" /\ ret.end = ret.start + 1)

\* a WhiteSpaces token of a space and a tab between two other tokens
C7_Witness ==
    /\ Returned /\ ret.kind = "WhiteSpaces"
    /\ CharsIn(source, ret.start, ret.end) = {" ", "\t"}
    /\ ret.start > 0 /\ ret.end < SourceLen(source)

-----------------------------------------------------------------------------
(* C8 *)

RECURSIVE PlainTextEnd(_, _)
\* Where a PlainText token that covers the character before byte offset e
\* ends by the escaping rule: at the first whitespace, line break, or
\* reserved character other than a backslash that no backslash precedes.
PlainTextEnd(src, e) ==
    IF e = SourceLen(src) THEN e
    ELSE LET c == CharAt(src, e)
         IN  IF \/ c \in WHITESPACECHARS \cup LINEBREAKCHARS
                \/ (c \in KEYCHARS \ {"\\"} /\ CharBefore(src, e) # "\\")
             THEN e
             ELSE PlainTextEnd(src, e + Width(c))

\* C8: a PlainText token that starts with a non-reserved character (other
\* than a colon, which has its own rule) ends at the first whitespace, line
\* break or reserved character that is not directly preceded by a backslash.
C8_PlainTextStopsAtUnescaped ==
    (Returned /\ ret.kind = "PlainText") =>
        LET c == CharAt(source, ret.start)
        IN  (c \notin KEYCHARS /\ c # ":") =>
                ret.end = PlainTextEnd(source, ret.start + Width(c))

-----------------------------------------------------------------------------
(* C9 *)

\* C9: when next_token scans a colon-led run that is classified PlainText,
\* and F is the token that follows the run: if F is PlainText the call
\* returns one PlainText from the colon to F's end and consumes nothing
\* more; otherwise it returns the run alone and F is buffered for the next
\* call, the cursor standing at F's end.
C9_ColonMergeKeepsFollowing ==
    (Returned /\ ret.kind = "PlainText" /\ CharAt(source, ret.start) = ":") =>
        LET run == read_align_type_or_plaintext(source, ret.start, ret.start + 1, TRUE)
            following == next_token(source, run.tok.end, NoToken)
        IN  (~run.panic /\ run.tok.kind = "PlainText" /\ ~following.panic) =>
              IF following.tok.kind = "PlainText"
              THEN /\ ret = Token("PlainText", ret.start, following.tok.end, "None")
                   /\ la = NoToken
                   /\ pos = following.tok.end
              ELSE /\ ret = run.tok
                   /\ la = following.tok
                   /\ pos = following.tok.end

-----------------------------------------------------------------------------
(* C10 *)

\* C10: once the whole source is consumed (cursor at the end, buffer
\* empty), next_token returns Eof with the range len..len and changes
\* nothing, Iterator next returns None, and a call that follows a call that
\* returned Eof returns the same.
C10_EofStable ==
    LET eof == Token("Eof", SourceLen(source), SourceLen(source), "None")
    IN  /\ (~failed /\ pos = SourceLen(source) /\ la = NoToken) =>
              /\ next_token(source, pos, la) = Ret(eof, pos, NoToken)
              /\ next(source, pos, la) = Ret(NoToken, pos, NoToken)
        /\ (~failed /\ op = "next_token" /\ ret.kind = "Eof") =>
              (ret = eof /\ pos = SourceLen(source) /\ la = NoToken)
        /\ (~failed /\ pop = "next_token" /\ pret.kind = "Eof") =>
              /\ op = "next_token" => ret = pret
              /\ op = "next" => ret = NoToken

\* two next_token calls in a row returned Eof on a source with a two-byte
\* character
C10_Witness ==
    /\ ~failed /\ pop = "next_token" /\ op = "next_token"
    /\ pret.kind = "Eof" /\ ret.kind = "Eof"
    /\ "é" \in CharsIn(source, 0, SourceLen(source))

-----------------------------------------------------------------------------
(* C17 *)

\* The index of the character that starts at byte offset b (Len + 1 for the
\* end of the source).
IndexAt(src, b) == CHOOSE i \in 1..(Len(src) + 1) : ByteOffset(src, i) = b

\* The characters a token spans, in order.
SpanOf(src, t) == SubSeq(src, IndexAt(src, t.start), IndexAt(src, t.end) - 1)

OnlyDashes(s, a, b) == \A i \in a..b : s[i] = "-"

\* C17: an Align(Center) token is a colon, dashes, a colon; an Align(Left)
\* token is a colon followed only by dashes; an Align(Right) token is dashes
\* followed by one final colon; a Dashes token is dashes only.  No colon
\* stands in the middle of such a token.
C17_AlignDashesShape ==
    (Returned /\ ret.kind \in {"Align", "Dashes"}) =>
        LET s == SpanOf(source, ret)
            n == Len(s)
        IN  CASE ret.align = "Center" ->
                   n >= 2 /\ s[1] = ":" /\ s[n] = ":" /\ OnlyDashes(s, 2, n - 1)
              [] ret.align = "Left" -> n >= 1 /\ s[1] = ":" /\ OnlyDashes(s, 2, n)
              [] ret.align = "Right" -> n >= 1 /\ s[n] = ":" /\ OnlyDashes(s, 1, n - 1)
              [] OTHER -> OnlyDashes(s, 1, n)

-----------------------------------------------------------------------------
(* C19 *)

\* A fresh lexer on which next_token and lookahead calls are interleaved.
NextLook == NextToken \/ Lookahead

SpecLook == Init /\ [][NextLook]_vars

\* C19: whatever lookahead() calls are made between them, the next_token
\* calls return the tokens that next_token calls alone return on the same
\* source.
C19_LookaheadKeepsStream ==
    IsPrefix(out, Stream(source, 0, NoToken, MaxCalls))

-----------------------------------------------------------------------------
(* Syntax tree state machine: one tree node under construction *)

MaxChildren == 3  \* most children the node under construction is given
MaxDepth == 8     \* largest depth Heading::new is called with

\* The values handed to add_child: Nodes of several variants and structs.
ChildValues ==
    { into(Struct("Text", <<"x">>)), into(Struct("Text", <<"y">>)),
      into(Struct("Break", <<>>)), into(Struct("ThematicBreak", <<>>)),
      into(Struct("Code", <<"c">>)),
      Struct("Text", <<"x">>), Struct("Paragraph", <<>>), Struct("ListItem", <<>>),
      Struct("TableRow", <<>>), Struct("TableCell", <<>>), Struct("Code", <<"c">>) }

\* The Parent impl of struct ty exists for some child type, so that its
\* methods can be called.
Implements(ty) == \E x \in ChildValues : Accepts(ty, x)

InitAst == New(<<>>)

\* A call on the tree returned: n is the node afterwards, r the result.
TreeDone(name, a, n, r) ==
    /\ op' = name
    /\ arg' = a
    /\ node' = n
    /\ res' = r
    /\ UNCHANGED <<source, pos, la, failed, ret, pop, pret, out, seen, rb>>

\* A call on the tree panicked.
TreeFail(name, a) ==
    /\ failed' = TRUE
    /\ op' = name
    /\ arg' = a
    /\ res' = NoRes
    /\ UNCHANGED <<source, pos, la, ret, pop, pret, out, seen, rb, node>>

\* Document::default() or a struct literal with no children
Construct ==
    /\ ~failed
    /\ \E ty \in ParentTypes \ {"Heading"} :
           TreeDone("new", NoNode, Struct(ty, <<>>), Res("Node", Struct(ty, <<>>), <<>>))
    /\ calls' = <<>>
    /\ UNCHANGED visitor

\* Heading::new(depth)
HeadingNew ==
    /\ ~failed
    /\ \E depth \in 0..MaxDepth :
         \E r \in {Heading_new(depth)} :
             IF r.panic THEN TreeFail("Heading::new", depth)
             ELSE TreeDone("Heading::new", depth, r.node, Res("Node", r.node, <<>>))
    /\ calls' = <<>>
    /\ UNCHANGED visitor

\* node.add_child(x); a child type outside the where clause is rejected
\* when the call is compiled and the node stays as it is
AddChild ==
    /\ ~failed
    /\ node # NoNode
    /\ \E x \in ChildValues :
           IF Accepts(node.ty, x)
           THEN /\ Len(node.children) < MaxChildren
                /\ TreeDone("add_child", x, add_child(node, x), Res("Ok", NoNode, <<>>))
           ELSE TreeDone("add_child", x, node, Res("Rejected", NoNode, <<>>))
    /\ calls' = <<>>
    /\ UNCHANGED visitor

\* node.remove_at(index)
RemoveAt ==
    /\ ~failed
    /\ node # NoNode
    /\ Implements(node.ty)
    /\ \E index \in 0..MaxChildren :
         \E r \in {remove_at(node, index)} :
             IF r.panic THEN TreeFail("remove_at", index)
             ELSE TreeDone("remove_at", index, r.node, Res("Node", r.removed, <<>>))
    /\ calls' = <<>>
    /\ UNCHANGED visitor

\* node.iter(), drained
Iter ==
    /\ ~failed
    /\ node # NoNode
    /\ Implements(node.ty)
    /\ TreeDone("iter", NoNode, node, Res("Iter", NoNode, iter(node)))
    /\ calls' = <<>>
    /\ UNCHANGED visitor

\* n.accept(&mut visitor) on the node under construction as a Node, or on
\* one of its children
Accept ==
    /\ ~failed
    /\ node # NoNode
    /\ \E n \in {into(node) : t \in {node.ty} \cap NodeVariants}
                \cup {node.children[i] : i \in 1..Len(node.children)} :
         \E r \in {accept(n, visitor)} :
             /\ TreeDone("accept", n, node, Res("Unit", NoNode, <<>>))
             /\ calls' = r.calls
             /\ visitor' = r.visitor

NextAst == Construct \/ HeadingNew \/ AddChild \/ RemoveAt \/ Iter \/ Accept

SpecAst == InitAst /\ [][NextAst]_vars

-----------------------------------------------------------------------------
(* Parser (src/src/parser.rs) *)

MaxHeadingLen == 8  \* longest source made of pounds and spaces only
MaxParseLen == 4    \* longest source over the other parser alphabets

\* What a parser function did: kind is "Some" (Ok(Some(node))), "None"
\* (Ok(None)), "Ok" (Ok(document)) or "Panic"; p and l are the lexer's cursor
\* and buffer afterwards, log the calls made so far.
PRet(kind, n, p, l, log) == [kind |-> kind, node |-> n, pos |-> p, la |-> l, calls |-> log]

\* unimplemented!()
Unimplemented(log) == PRet("Panic", NoNode, 0, NoToken, log)

\* The characters of src in the byte range a..b, which the call
\* self._lexer.range_as_str(a..b) names
range_as_str(src, a, b) == SubSeq(src, IndexAt(src, a), IndexAt(src, b) - 1)

\* Parser::parse_phrasing_content
parse_phrasing_content(src, p, l, log) ==
    Unimplemented(Append(log, Call("parse_phrasing_content", NoToken)))

\* Parser::parse_block_quote
parse_block_quote(src, p, l, range, log) ==
    Unimplemented(Append(log, Call("parse_block_quote", range)))

\* Parser::parse_code
parse_code(src, p, l, range, log) ==
    Unimplemented(Append(log, Call("parse_code", range)))

\* Parser::parse_heading; pounds is the Pounds token.  The while loop ends
\* in its first parse_phrasing_content call, which panics.
parse_heading(src, p, l, pounds, log) ==
    CHOOSE r \in
      { IF expect.panic THEN PRet("Panic", NoNode, 0, NoToken, log1)
        ELSE IF expect.tok.kind = "WhiteSpaces"
        THEN CHOOSE r2 \in
               { IF h.panic
                 THEN PRet("Panic", NoNode, 0, NoToken, log2)
                 ELSE CHOOSE r3 \in
                        { IF content.kind = "Panic" THEN content
                          ELSE Unimplemented(content.calls)
                          : heading \in
                              { IF expect.tok.end - expect.tok.start > 1
                                THEN add_child(h.node,
                                         Struct("Text", range_as_str(src,
                                             expect.tok.start + 1, expect.tok.end)))
                                ELSE h.node },
                            content \in
                              {parse_phrasing_content(src, expect.pos, expect.la, log2)} }
                        : TRUE
                 : h \in {Heading_new(pounds.end - pounds.start)},
                   log2 \in {Append(log1, Call("Heading::new", pounds.end - pounds.start))} }
               : TRUE
        ELSE Unimplemented(log1)
        : expect \in {lookahead(src, p, l)},
          log1 \in {Append(log, Call("parse_heading", pounds))} } : TRUE

\* Parser::parse_flow_content
parse_flow_content(src, p, l, log) ==
    CHOOSE r \in
      { IF token.panic THEN PRet("Panic", NoNode, 0, NoToken, log)
        ELSE CASE token.tok.kind = "GreaterThans" ->
                    parse_block_quote(src, token.pos, token.la, token.tok, log1)
               [] token.tok.kind = "Backticks" ->
                    parse_code(src, token.pos, token.la, token.tok, log1)
               [] token.tok.kind = "Pounds" ->
                    parse_heading(src, token.pos, token.la, token.tok, log1)
               [] token.tok.kind = "Eof" ->
                    PRet("None", NoNode, token.pos, token.la, log1)
               [] OTHER -> Unimplemented(log1)
        : token \in {next_token(src, p, l)},
          log1 \in {Append(log, Call("next_token", next_token(src, p, l).tok))} } : TRUE

RECURSIVE parse_loop(_, _, _, _, _)
\* The loop of Parser::parse
parse_loop(src, p, l, document, log) ==
    CHOOSE r \in
      { IF flow.kind = "Some"
        THEN parse_loop(src, flow.pos, flow.la, add_child(document, flow.node), flow.calls)
        ELSE IF flow.kind = "None"
        THEN PRet("Ok", document, flow.pos, flow.la, flow.calls)
        ELSE flow
        : flow \in {parse_flow_content(src, p, l, log)} } : TRUE

\* Parser::parse on a parser whose lexer has cursor p and buffer l
parse(src, p, l) == parse_loop(src, p, l, Struct("Document", <<>>), <<>>)

\* The sources the parser is run on.
ParseAlphabets ==
    { {"#", " ", "a", "\n"},
      {">", Backtick, "a", "#"},
      {"-", ":", "*", "_"},
      {"+", "|", "\t", "\r"} }

ParseSources ==
    SeqsUpTo({"#", " "}, MaxHeadingLen)
        \cup UNION {SeqsUpTo(A, MaxParseLen) : A \in ParseAlphabets}

\* Parser::new(src)
InitParse == \E src \in ParseSources : New(src)

\* a call of parser.parse()
Parse ==
    /\ ~failed
    /\ \E r \in {parse(source, pos, la)} :
           IF r.kind = "Panic"
           THEN /\ failed' = TRUE
                /\ op' = "parse"
                /\ res' = NoRes
                /\ calls' = r.calls
                /\ UNCHANGED <<source, pos, la, ret, pop, pret, out, seen, rb,
                               node, arg, visitor>>
           ELSE /\ op' = "parse"
                /\ pos' = r.pos
                /\ la' = r.la
                /\ node' = r.node
                /\ res' = Res("Ok", r.node, <<>>)
                /\ calls' = r.calls
                /\ UNCHANGED <<source, failed, ret, pop, pret, out, seen, rb, arg, visitor>>

NextParse == Parse

SpecParse == InitParse /\ [][NextParse]_vars

-----------------------------------------------------------------------------
(* C13 *)

\* The capability the content-model table asks of the children of each
\* parent.
TableCapability(ty) ==
    CASE ty \in {"Document", "Blockquote", "ListItem", "FootnoteDefinition"} -> "FlowContent"
      [] ty \in {"Paragraph", "Heading", "Emphasis", "Strong", "Link",
                 "LinkReference", "Delete", "TableCell"} -> "PhrasingContent"
      [] ty = "List" -> "ListContent"
      [] ty = "Table" -> "TableContent"
      [] ty = "TableRow" -> "RowContent"

\* C13: after any sequence of add_child calls every child of the node has
\* the capability the content-model table asks of the children of that kind
\* of parent, and an add_child whose child does not have it is rejected.
C13_ContentModelEnforced ==
    node # NoNode =>
        /\ \A i \in 1..Len(node.children) :
               TableCapability(node.ty) \in Capabilities(node.children[i].ty)
        /\ (op = "add_child" /\ TableCapability(node.ty) \notin Capabilities(arg.ty)) =>
               res.kind = "Rejected"

-----------------------------------------------------------------------------
(* C14 *)

\* C14: Heading::new(depth) returns a Heading with that depth and no
\* children for every depth from 1 to 6, and panics, returning no Heading,
\* for depth 0 and for every depth from 7 up.
C14_HeadingDepthChecked ==
    op = "Heading::new" =>
        IF arg \in 1..6
        THEN /\ ~failed
             /\ res.kind = "Node"
             /\ res.node.ty = "Heading"
             /\ res.node.depth = arg
             /\ res.node.children = <<>>
        ELSE failed /\ res = NoRes

\* Heading::new(6) returned the deepest heading
C14_Witness ==
    op = "Heading::new" /\ arg = 6 /\ ~failed /\ node.ty = "Heading" /\ node.depth = 6

-----------------------------------------------------------------------------
(* C15 *)

\* The struct each method of the Visitor trait takes
ParamType(method) ==
    CASE method = "visit_document" -> "Document"
      [] method = "visit_heading" -> "Heading"
      [] method = "visit_thematic_break" -> "ThematicBreak"
      [] method = "visit_blockquote" -> "Blockquote"
      [] method = "visit_list" -> "List"
      [] method = "visit_list_item" -> "ListItem"
      [] method = "visit_code" -> "Code"
      [] method = "visit_definition" -> "Definition"
      [] method = "visit_text" -> "Text"
      [] method = "visit_emphasis" -> "Emphasis"
      [] method = "visit_strong" -> "Strong"
      [] method = "visit_inline_code" -> "InlineCode"
      [] method = "visit_break" -> "Break"
      [] method = "visit_link" -> "Link"
      [] method = "visit_link_reference" -> "LinkReference"
      [] method = "visit_image" -> "Image"
      [] method = "visit_image_reference" -> "ImageReference"

\* C15: accept on a Node calls exactly one Visitor method, the one that
\* takes the struct of the node's variant, with the node's own struct, and
\* none for its children; with the default methods the visitor and the tree
\* are afterwards what they were.
C15_AcceptDispatchesOnce ==
    [][ op' = "accept" =>
          /\ Len(calls') = 1
          /\ ParamType(calls'[1].fn) = arg'.ty
          /\ calls'[1].arg = [arg' EXCEPT !.rust = "struct"]
          /\ visitor' = visitor
          /\ node' = node ]_vars

\* accept was called on a Document that has two children or more
C15_Witness ==
    /\ op = "accept" /\ ~failed
    /\ arg.ty = "Document" /\ Len(arg.children) >= 2
    /\ Len(calls) = 1 /\ calls[1].fn = "visit_document"

-----------------------------------------------------------------------------
(* C20 *)

\* C20: add_child makes the node the last child and leaves the earlier
\* children as they were; remove_at(i) with i below the child count returns
\* the child that was at index i and keeps the other children in their
\* order; iter yields the children in their order and changes nothing.
C20_ChildrenKeepOrder ==
    [][ /\ (op' = "add_child" /\ res'.kind = "Ok") =>
              /\ Len(node'.children) = Len(node.children) + 1
              /\ node'.children[Len(node'.children)] = [arg' EXCEPT !.rust = "Node"]
              /\ \A i \in 1..Len(node.children) : node'.children[i] = node.children[i]
        /\ (op' = "remove_at" /\ arg' < Len(node.children)) =>
              /\ ~failed'
              /\ res'.node = node.children[arg' + 1]
              /\ node'.children = SubSeq(node.children, 1, arg')
                                     \o SubSeq(node.children, arg' + 2, Len(node.children))
        /\ (op' = "iter") =>
              /\ res'.items = node.children
              /\ node' = node ]_vars

\* remove_at(0) took the first of three different children
C20_Witness ==
    /\ op = "remove_at" /\ arg = 0 /\ ~failed
    /\ Len(node.children) = 2
    /\ Cardinality({res.node, node.children[1], node.children[2]}) = 3

-----------------------------------------------------------------------------
(* C11 *)

\* C11: on every source parse() returns (a Document, or the error value);
\* it never aborts, whatever the first token of the source is.
C11_ParseNeverAborts == op = "parse" => (~failed /\ res.kind = "Ok")

-----------------------------------------------------------------------------
(* C12 *)

\* The number of pound characters the source starts with.
RECURSIVE LeadingPounds(_)
LeadingPounds(src) ==
    IF Len(src) > 0 /\ src[1] = "#" THEN 1 + LeadingPounds(Tail(src)) ELSE 0

\* The source is 1 to 6 pounds followed by nothing, or by one space and
\* then letters only, with or without a line break at the end.
HeadingLine(src) ==
    LET n == LeadingPounds(src)
        rest == SubSeq(src, n + 1, Len(src))
    IN  /\ n \in 1..6
        /\ \/ rest = <<>>
           \/ /\ Len(rest) >= 2
              /\ rest[1] = " "
              /\ rest[2] = "a"
              /\ \A i \in 3..Len(rest) : rest[i] = "a" \/ (i = Len(rest) /\ rest[i] = "\n")

\* The letters of a heading line.
HeadingText(src) == SelectSeq(src, LAMBDA c : c = "a")

\* C12: on a source of n pounds (n from 1 to 6) followed by whitespace and
\* text, or by the end of input, parse() returns a Document whose only child
\* is a Heading of depth n, whose children are the text of the line (one
\* Text) or nothing.
C12_HeadingParsed ==
    (op = "parse" /\ HeadingLine(source)) =>
        /\ ~failed
        /\ res.kind = "Ok"
        /\ node.ty = "Document"
        /\ Len(node.children) = 1
        /\ node.children[1].ty = "Heading"
        /\ node.children[1].depth = LeadingPounds(source)
        /\ LET text == node.children[1].children
           IN  IF HeadingText(source) = <<>> THEN text = <<>>
               ELSE /\ Len(text) = 1
                    /\ text[1].ty = "Text"
                    /\ text[1].value = HeadingText(source)

-----------------------------------------------------------------------------
(* C16 *)

\* C16: during parse() Heading::new is never called with a depth outside
\* 1..6, also when a line starts with 7 pounds or more and a whitespace.
C16_ParserDepthInRange ==
    op = "parse" =>
        \A i \in 1..Len(calls) :
            calls[i].fn = "Heading::new" => calls[i].arg \in 1..6

-----------------------------------------------------------------------------
(* C18 *)

\* C18: when the source starts with a greater-than sign, the first token
\* parse() receives is GreaterThans and parse_flow_content hands it to
\* parse_block_quote.
C18_BlockquoteReached ==
    (op = "parse" /\ Len(source) > 0 /\ source[1] = ">") =>
        /\ Len(calls) >= 2
        /\ calls[1].fn = "next_token"
        /\ calls[1].arg.kind = "GreaterThans"
        /\ calls[2].fn = "parse_block_quote"

====
